---- MODULE Spec2Model ----
(***************************************************************************)
(* StockReader.py as a state machine: the __main__ pipeline (credential    *)
(* resolution, prompts, get_stock_data, save_to_text_file,                 *)
(* create_price_graph), one action per statement group, with the           *)
(* environment (environment variable, typed answers, wall clock, HTTP      *)
(* outcome, file and rendering failures) chosen nondeterministically.      *)
(*                                                                         *)
(* Python str values are tuples of one-character strings.  Prices and      *)
(* volumes are fixed-point numbers in thousandths.  A datetime is a number *)
(* of clock ticks, TicksPerDay ticks to the calendar day, and a formatted  *)
(* '%Y-%m-%d' date is the proleptic ordinal of that day.                   *)
(***************************************************************************)
EXTENDS Integers, Sequences, FiniteSets, TLC

VARIABLES mode, pc, environ, key_answer, API_KEY, stock, days_tracked, now, end_date,
          start_date, response, stock_data, tableFile, chartFile, out,
          raised, httpCount, keyPrompts, tickerPrompts, calls

vars == <<mode, pc, environ, key_answer, API_KEY, stock, days_tracked, now, end_date,
          start_date, response, stock_data, tableFile, chartFile, out,
          raised, httpCount, keyPrompts, tickerPrompts, calls>>

-----------------------------------------------------------------------------
(* Bounds of the model *)

\* clock ticks per calendar day (the resolution of datetime.now())
TicksPerDay == 2
\* how many ticks the wall clock may advance between two readings
MaxClockStep == 1
\* the calendar day (proleptic ordinal) on which a run starts: 2026-11-03
Today == 739923
\* the most bars a response carries
MaxBars == 2
\* the API prices are PriceBase .. PriceBase + MaxFrac thousandths
MaxFrac == 9

(* Constants of the Python runtime the program runs on *)

\* date.min.toordinal() and date.max.toordinal(): the datetime range
MinOrdinal == 1
MaxOrdinal == 3652059
\* $150.000 and a share volume, in thousandths
PriceBase == 150000
VolumeBase == 52000123

-----------------------------------------------------------------------------
(* Python values *)

None == [none |-> TRUE]
Some(x) == [val |-> x]

\* truth value of an optional str: None and '' are falsy
Truthy(v) == v # None /\ v.val # <<>>

Digits == {"0", "1", "2", "3", "4", "5", "6", "7", "8", "9"}
Whitespace == {" "}

DigitVal(c) ==
    CASE c = "0" -> 0 [] c = "1" -> 1 [] c = "2" -> 2 [] c = "3" -> 3
      [] c = "4" -> 4 [] c = "5" -> 5 [] c = "6" -> 6 [] c = "7" -> 7
      [] c = "8" -> 8 [] c = "9" -> 9

RECURSIVE LStrip(_)
LStrip(s) ==
    IF s # <<>> /\ Head(s) \in Whitespace THEN LStrip(Tail(s)) ELSE s

RECURSIVE RStrip(_)
RStrip(s) ==
    IF s # <<>> /\ s[Len(s)] \in Whitespace
    THEN RStrip(SubSeq(s, 1, Len(s) - 1))
    ELSE s

\* a prompt read without .strip()
StripNone(s) == s

\* str.strip()
Strip(s) == RStrip(LStrip(s))

UpperChar(c) ==
    CASE c = "a" -> "A" [] c = "b" -> "B" [] OTHER -> c

\* str.upper()
Upper(s) == [i \in DOMAIN s |-> UpperChar(s[i])]

RECURSIVE DigitsValue(_)
DigitsValue(s) ==
    IF s = <<>> THEN 0
    ELSE 10 * DigitsValue(SubSeq(s, 1, Len(s) - 1)) + DigitVal(s[Len(s)])

\* int(str): surrounding whitespace is dropped, one optional sign, then at
\* least one digit and nothing else; anything else is a ValueError
ParseInt(s) ==
    LET t == Strip(s)
        signed == t # <<>> /\ Head(t) \in {"+", "-"}
        body == IF signed THEN Tail(t) ELSE t
        good == body # <<>> /\ \A i \in DOMAIN body : body[i] \in Digits
    IN  IF ~good THEN [ok |-> FALSE, val |-> 0]
        ELSE [ok |-> TRUE,
              val |-> IF signed /\ Head(t) = "-"
                      THEN 0 - DigitsValue(body)
                      ELSE DigitsValue(body)]

\* datetime.strftime('%Y-%m-%d'): the calendar day, the time of day dropped
StrftimeYmd(dt) == dt \div TicksPerDay

\* a datetime is representable from date.min to date.max
DatetimeInRange(dt) ==
    /\ StrftimeYmd(dt) >= MinOrdinal
    /\ StrftimeYmd(dt) <= MaxOrdinal

\* datetime - timedelta(days=n)
MinusDays(dt, n) == dt - n * TicksPerDay

\* the third decimal cut off instead of rounded
Round2Truncate(x) == (x \div 10) * 10

\* round(2) of a price in thousandths: to the nearest hundredth, a tie to
\* the even hundredth
Round2(x) ==
    LET q == x \div 10
        r == x % 10
    IN  IF r < 5 THEN q * 10
        ELSE IF r > 5 THEN (q + 1) * 10
        ELSE IF q % 2 = 0 THEN q * 10 ELSE (q + 1) * 10

-----------------------------------------------------------------------------
(* What the user may type and what the environment may hold *)

EnvValues == {None, Some(<<>>), Some(<<"k">>)}
KeyInputs == {<<>>, <<" ">>, <<"k">>, <<" ", "k", " ">>}
TickerInputs == {<<"a", "b">>, <<"A">>}
DaysInputs ==
    { <<"2">>, <<" ", "1">>, <<"0">>, <<"-", "1">>, <<"a", "b">>, <<>>,
      <<"2", ".", "5">>, <<"1", "0", "0", "0", "0", "0", "0">> }

-----------------------------------------------------------------------------
(* The market-data API, as far as the program depends on it *)

Prices == PriceBase .. (PriceBase + MaxFrac)

\* the query parameters of the request
Params(api_key) == [adjusted |-> "true", sort |-> "asc", apikey |-> api_key]

\* bar number k of a response whose first open price is p: every price
\* field has its own thousandths digit, and the volume is no multiple of 10
Bar(day, p, k) ==
    LET o == p + 3 * (k - 1)
    IN  [t |-> day * TicksPerDay + (TicksPerDay - 1),
         o |-> o, h |-> o + 7, l |-> o - 6, c |-> o + 4,
         v |-> VolumeBase + 10 * k]

\* the API orders the bars by timestamp as the 'sort' parameter asks
InOrder(sort, s) ==
    \A i \in 1 .. (Len(s) - 1) :
        IF sort = "asc" THEN s[i] < s[i + 1] ELSE s[i] > s[i + 1]

\* the days of the bars: between the two dates of the URL, at most MaxBars
DaySeqs(sort, lo, hi) ==
    UNION { { s \in [1 .. n -> lo .. hi] : InOrder(sort, s) } : n \in 1 .. MaxBars }

ResultArrays(sort, lo, hi) ==
    { [k \in DOMAIN ds |-> Bar(ds[k], p, k)] : ds \in DaySeqs(sort, lo, hi), p \in Prices }

\* a bar sequence whose bars all lack field f
Without(results, f) ==
    [k \in DOMAIN results |->
        [g \in (DOMAIN results[k]) \ {f} |-> results[k][g]]]

\* the responses requests.get may return for a request
ApiResponses(params, lo, hi) ==
    LET good == ResultArrays(params.sort, lo, hi)
        bad == { Without(r, f) : r \in good, f \in {"t", "c"} }
    IN  { [status |-> s, body |-> [kind |-> "text"]] : s \in {403, 429} }
        \cup { [status |-> 200, body |-> [kind |-> "not_json"]] }
        \cup { [status |-> 200, body |-> [kind |-> "json", data |-> [status |-> "OK"]]] }
        \cup { [status |-> 200,
                body |-> [kind |-> "json", data |-> [status |-> "OK", results |-> r]]]
               : r \in {<<>>} \cup good \cup bad }

-----------------------------------------------------------------------------
(* get_stock_data: the checks and the transform *)

\* response.status_code == 200
StatusOk(resp) == resp.status = 200

\* 'results' in data and data['results']
HasResults(data) == "results" \in DOMAIN data /\ data.results # <<>>

\* the columns of pd.DataFrame(results)
Columns(results) == UNION { DOMAIN results[k] : k \in DOMAIN results }

\* df['t'] and df[['date', ..., 'volume']] raise KeyError on a missing column
TransformRaises(results) == ~({"t", "o", "h", "l", "c", "v"} \subseteq Columns(results))

\* the transform with the frame in descending order
TransformReversed(results) ==
    [k \in DOMAIN results |->
        LET b == results[Len(results) + 1 - k]
        IN  [date     |-> b.t,
             date_str |-> StrftimeYmd(b.t),
             open     |-> Round2(b.o),
             high     |-> Round2(b.h),
             low      |-> Round2(b.l),
             close    |-> Round2(b.c),
             volume   |-> b.v]]

\* the transform with the first bar sliced off
TransformDropFirst(results) ==
    [k \in 1 .. (Len(results) - 1) |->
        LET b == results[k + 1]
        IN  [date     |-> b.t,
             date_str |-> StrftimeYmd(b.t),
             open     |-> Round2(b.o),
             high     |-> Round2(b.h),
             low      |-> Round2(b.l),
             close    |-> Round2(b.c),
             volume   |-> b.v]]

\* one row of final_df per bar, in the order of the response: the date and
\* its display string from t, the renamed price columns rounded, the volume
TransformResults(results) ==
    [k \in DOMAIN results |->
        [date     |-> results[k].t,
         date_str |-> StrftimeYmd(results[k].t),
         open     |-> Round2(results[k].o),
         high     |-> Round2(results[k].h),
         low      |-> Round2(results[k].l),
         close    |-> Round2(results[k].c),
         volume   |-> results[k].v]]

\* the stages run whatever get_stock_data returned
MainGuardAlways(data) == TRUE

\* if stock_data is not None
MainGuard(data) == data # None

-----------------------------------------------------------------------------
(* Initial states *)

NoFile == [exists |-> FALSE, header |-> FALSE, rows |-> <<>>]

\* the interpreter starts __main__: nothing read, nothing written
Init ==
    /\ mode = "main"
    /\ pc = "main"
    /\ environ \in EnvValues
    /\ key_answer = None
    /\ API_KEY = None
    /\ stock = <<>>
    /\ days_tracked = <<>>
    /\ now \in { Today * TicksPerDay + k : k \in 0 .. (TicksPerDay - 1) }
    /\ end_date = 0
    /\ start_date = 0
    /\ response = None
    /\ stock_data = None
    /\ tableFile = NoFile
    /\ chartFile = FALSE
    /\ out = <<>>
    /\ raised = "none"
    /\ httpCount = 0
    /\ keyPrompts = 0
    /\ tickerPrompts = 0
    /\ calls = <<>>

-----------------------------------------------------------------------------
(* get_api_key and the prompts of __main__ *)

\* lines 163, 166, 148-151: the banner, then os.getenv('POLYGON_API_KEY')
GetApiKeyEnv ==
    /\ pc = "main"
    /\ out' = Append(out, "=== Stock Price Tracker ===")
    /\ IF Truthy(environ)
       THEN API_KEY' = environ /\ pc' = "main_check_key"
       ELSE API_KEY' = API_KEY /\ pc' = "gak_prompt"
    /\ UNCHANGED <<mode, environ, key_answer, stock, days_tracked, now, end_date, start_date,
                   response, stock_data, tableFile, chartFile, raised,
                   httpCount, keyPrompts, tickerPrompts, calls>>

\* lines 154-160: the fallback prompt, stripped; an empty answer gives None
GetApiKeyPrompt ==
    /\ pc = "gak_prompt"
    /\ \E answer \in KeyInputs :
         LET api_key == Strip(answer)
         IN  /\ key_answer' = Some(answer)
             /\ IF api_key = <<>>
                THEN /\ out' = Append(out, "API key is required to continue")
                     /\ API_KEY' = None
                ELSE /\ out' = out
                     /\ API_KEY' = Some(api_key)
    /\ keyPrompts' = keyPrompts + 1
    /\ pc' = "main_check_key"
    /\ UNCHANGED <<mode, environ, stock, days_tracked, now, end_date, start_date,
                   response, stock_data, tableFile, chartFile, raised,
                   httpCount, tickerPrompts, calls>>

\* lines 168-170: if not API_KEY: print("Exiting..."); exit()
MainCheckKey ==
    /\ pc = "main_check_key"
    /\ IF ~Truthy(API_KEY)
       THEN out' = Append(out, "Exiting...") /\ pc' = "exited"
       ELSE out' = out /\ pc' = "main_ticker"
    /\ UNCHANGED <<mode, environ, key_answer, API_KEY, stock, days_tracked, now, end_date,
                   start_date, response, stock_data, tableFile, chartFile,
                   raised, httpCount, keyPrompts, tickerPrompts, calls>>

\* lines 172-173: the ticker, upper-cased, and the number of days as typed
MainPrompts ==
    /\ pc = "main_ticker"
    /\ \E ticker \in TickerInputs : stock' = Upper(ticker)
    /\ \E days \in DaysInputs : days_tracked' = days
    /\ tickerPrompts' = tickerPrompts + 1
    /\ pc' = "gsd_end_date"
    /\ UNCHANGED <<mode, environ, key_answer, API_KEY, now, end_date, start_date, response,
                   stock_data, tableFile, chartFile, out, raised, httpCount,
                   keyPrompts, calls>>

-----------------------------------------------------------------------------
(* get_stock_data *)

\* an exception nothing catches ends the run with a traceback
Propagate(exc) == raised' = exc /\ pc' = "crashed"

\* line 12: end_date from a first reading of the clock
GsdEndDate ==
    /\ pc = "gsd_end_date"
    /\ \E step \in 0 .. MaxClockStep : now' = now + step
    /\ end_date' = StrftimeYmd(now')
    /\ pc' = "gsd_start_date"
    /\ UNCHANGED <<mode, environ, key_answer, API_KEY, stock, days_tracked, start_date,
                   response, stock_data, tableFile, chartFile, out, raised,
                   httpCount, keyPrompts, tickerPrompts, calls>>

\* line 13: start_date from a second reading of the clock, less
\* int(days_tracked) days; int() and the subtraction may raise
GsdStartDate ==
    /\ pc = "gsd_start_date"
    /\ \E step \in 0 .. MaxClockStep : now' = now + step
    /\ LET n == ParseInt(days_tracked)
       IN  IF ~n.ok
           THEN Propagate("ValueError") /\ start_date' = start_date
           ELSE IF ~DatetimeInRange(MinusDays(now', n.val))
           THEN Propagate("OverflowError") /\ start_date' = start_date
           ELSE /\ start_date' = StrftimeYmd(MinusDays(now', n.val))
                /\ pc' = "gsd_request"
                /\ raised' = raised
    /\ UNCHANGED <<mode, environ, key_answer, API_KEY, stock, days_tracked, end_date,
                   response, stock_data, tableFile, chartFile, out,
                   httpCount, keyPrompts, tickerPrompts, calls>>

\* lines 16-26: the one requests.get; it returns a response or raises
GsdRequest ==
    /\ pc = "gsd_request"
    /\ httpCount' = httpCount + 1
    /\ \/ /\ \E r \in ApiResponses(Params(API_KEY.val), start_date, end_date) :
               response' = Some(r)
          /\ pc' = "gsd_response"
          /\ raised' = raised
       \/ /\ Propagate("ConnectionError")
          /\ response' = response
    /\ UNCHANGED <<mode, environ, key_answer, API_KEY, stock, days_tracked, now, end_date,
                   start_date, stock_data, tableFile, chartFile, out,
                   keyPrompts, tickerPrompts, calls>>

\* a failed fetch sent back to the request
OnApiErrorRetry == "gsd_request"

\* lines 56-61: on a failed fetch get_stock_data returns None to __main__
OnApiError == "main_result"

\* lines 28-61: status check, json(), results check, transform, return
GsdHandleResponse ==
    /\ pc = "gsd_response"
    /\ LET r == response.val
       IN  IF StatusOk(r)
           THEN IF r.body.kind # "json"
                THEN /\ Propagate("JSONDecodeError")
                     /\ UNCHANGED <<stock_data, out>>
                ELSE IF HasResults(r.body.data)
                THEN IF TransformRaises(r.body.data.results)
                     THEN /\ Propagate("KeyError")
                          /\ UNCHANGED <<stock_data, out>>
                     ELSE /\ stock_data' = Some(TransformResults(r.body.data.results))
                          /\ pc' = "main_result"
                          /\ UNCHANGED <<raised, out>>
                ELSE /\ out' = Append(out, "No data found in API response")
                     /\ stock_data' = None
                     /\ pc' = OnApiError
                     /\ raised' = raised
           ELSE /\ out' = Append(out, "API Error")
                /\ stock_data' = None
                /\ pc' = OnApiError
                /\ raised' = raised
    /\ UNCHANGED <<mode, environ, key_answer, API_KEY, stock, days_tracked, now, end_date,
                   start_date, response, tableFile, chartFile, httpCount,
                   keyPrompts, tickerPrompts, calls>>

\* lines 178-184: the stages run only on a result that is not None
MainResult ==
    /\ pc = "main_result"
    /\ IF MainGuard(stock_data)
       THEN out' = Append(out, "Successfully retrieved data") /\ pc' = "stf_entry"
       ELSE out' = Append(out, "Failed to retrieve data") /\ pc' = "done"
    /\ UNCHANGED <<mode, environ, key_answer, API_KEY, stock, days_tracked, now, end_date,
                   start_date, response, stock_data, tableFile, chartFile,
                   raised, httpCount, keyPrompts, tickerPrompts, calls>>

-----------------------------------------------------------------------------
(* save_to_text_file *)

\* the run ended after the table, the chart never attempted
AfterSaveEnds == "done"

\* where control goes when save_to_text_file returns: __main__ calls
\* create_price_graph next (lines 181-182); a direct call just ends
AfterSave == IF mode = "main" THEN "cpg_entry" ELSE "done"

\* open() left outside the try block
SaveTryStepsNarrow == {"stf_header", "stf_rows"}

\* the steps of save_to_text_file inside its try block (lines 123-144)
SaveTrySteps == {"stf_open", "stf_header", "stf_rows"}

\* an exception at a step: caught and reported inside the try block
SaveRaise(step, exc) ==
    IF step \in SaveTrySteps
    THEN /\ out' = Append(out, "Error saving file")
         /\ pc' = AfterSave
         /\ raised' = raised
    ELSE /\ Propagate(exc)
         /\ out' = out

\* lines 136-141: the text of one data row, column by column
FormatRow(row) ==
    <<row.date_str, row.open, row.high, row.low, row.close, row.volume>>

\* lines 118-121: the call, and the early return on None
SaveEntry ==
    /\ pc = "stf_entry"
    /\ calls' = Append(calls, "save_to_text_file")
    /\ IF stock_data = None
       THEN out' = Append(out, "No data to save") /\ pc' = AfterSave
       ELSE out' = out /\ pc' = "stf_open"
    /\ UNCHANGED <<mode, environ, key_answer, API_KEY, stock, days_tracked, now, end_date,
                   start_date, response, stock_data, tableFile, chartFile,
                   raised, httpCount, keyPrompts, tickerPrompts>>

\* line 124: open(filename, 'w') creates the file empty, or fails
SaveOpen ==
    /\ pc = "stf_open"
    /\ \/ /\ tableFile' = [exists |-> TRUE, header |-> FALSE, rows |-> <<>>]
          /\ pc' = "stf_header"
          /\ UNCHANGED <<out, raised>>
       \/ /\ SaveRaise("stf_open", "OSError")
          /\ tableFile' = tableFile
    /\ UNCHANGED <<mode, environ, key_answer, API_KEY, stock, days_tracked, now, end_date,
                   start_date, response, stock_data, chartFile, httpCount,
                   keyPrompts, tickerPrompts, calls>>

\* lines 126-132: the header block, or a failed write
SaveHeader ==
    /\ pc = "stf_header"
    /\ \/ /\ tableFile' = [tableFile EXCEPT !.header = TRUE]
          /\ pc' = "stf_rows"
          /\ UNCHANGED <<out, raised>>
       \/ /\ SaveRaise("stf_header", "OSError")
          /\ tableFile' = tableFile
    /\ UNCHANGED <<mode, environ, key_answer, API_KEY, stock, days_tracked, now, end_date,
                   start_date, response, stock_data, chartFile, httpCount,
                   keyPrompts, tickerPrompts, calls>>

\* lines 135-141: one pass of the loop over df.iterrows(): the next row is
\* written, or its write fails; after the last row the function returns
SaveRows ==
    /\ pc = "stf_rows"
    /\ LET df == stock_data.val
           i == Len(tableFile.rows) + 1
       IN  IF i > Len(df)
           THEN /\ pc' = AfterSave
                /\ UNCHANGED <<tableFile, out, raised>>
           ELSE \/ /\ tableFile' =
                        [tableFile EXCEPT !.rows = Append(@, FormatRow(df[i]))]
                   /\ pc' = "stf_rows"
                   /\ UNCHANGED <<out, raised>>
                \/ /\ SaveRaise("stf_rows", "OSError")
                   /\ tableFile' = tableFile
    /\ UNCHANGED <<mode, environ, key_answer, API_KEY, stock, days_tracked, now, end_date,
                   start_date, response, stock_data, chartFile, httpCount,
                   keyPrompts, tickerPrompts, calls>>

-----------------------------------------------------------------------------
(* create_price_graph *)

\* the steps of create_price_graph inside its try block (lines 68-116)
GraphTrySteps == {"cpg_plot", "cpg_axis", "cpg_annotate", "cpg_save", "cpg_show"}

\* an exception at a step: caught and reported inside the try block
GraphRaise(step, exc) ==
    IF step \in GraphTrySteps
    THEN /\ out' = Append(out, "Error creating graph")
         /\ pc' = "done"
         /\ raised' = raised
    ELSE /\ Propagate(exc)
         /\ out' = out

\* line 85: the tick interval of the x axis
XInt(n) == IF n \div 15 > 1 THEN n \div 15 ELSE 1

\* lines 63-66: the call, and the early return on None
GraphEntry ==
    /\ pc = "cpg_entry"
    /\ calls' = Append(calls, "create_price_graph")
    /\ IF stock_data = None
       THEN out' = Append(out, "No data to graph") /\ pc' = "done"
       ELSE out' = out /\ pc' = "cpg_plot"
    /\ UNCHANGED <<mode, environ, key_answer, API_KEY, stock, days_tracked, now, end_date,
                   start_date, response, stock_data, tableFile, chartFile,
                   raised, httpCount, keyPrompts, tickerPrompts>>

\* lines 69-82: figure, line, band, title, labels, grid, legend
GraphPlot ==
    /\ pc = "cpg_plot"
    /\ \/ pc' = "cpg_axis" /\ UNCHANGED <<out, raised>>
       \/ GraphRaise("cpg_plot", "RenderError")
    /\ UNCHANGED <<mode, environ, key_answer, API_KEY, stock, days_tracked, now, end_date,
                   start_date, response, stock_data, tableFile, chartFile,
                   httpCount, keyPrompts, tickerPrompts, calls>>

\* lines 84-95: int(days_tracked), the day locator, the y limits
GraphAxis ==
    /\ pc = "cpg_axis"
    /\ LET n == ParseInt(days_tracked)
       IN  IF ~n.ok
           THEN GraphRaise("cpg_axis", "ValueError")
           ELSE IF XInt(n.val) < 1
           THEN GraphRaise("cpg_axis", "ValueError")
           ELSE \/ pc' = "cpg_annotate" /\ UNCHANGED <<out, raised>>
                \/ GraphRaise("cpg_axis", "RenderError")
    /\ UNCHANGED <<mode, environ, key_answer, API_KEY, stock, days_tracked, now, end_date,
                   start_date, response, stock_data, tableFile, chartFile,
                   httpCount, keyPrompts, tickerPrompts, calls>>

\* lines 97-104: the latest close, df['close'].iloc[-1], annotated
GraphAnnotate ==
    /\ pc = "cpg_annotate"
    /\ IF Len(stock_data.val) = 0
       THEN GraphRaise("cpg_annotate", "IndexError")
       ELSE \/ pc' = "cpg_save" /\ UNCHANGED <<out, raised>>
            \/ GraphRaise("cpg_annotate", "RenderError")
    /\ UNCHANGED <<mode, environ, key_answer, API_KEY, stock, days_tracked, now, end_date,
                   start_date, response, stock_data, tableFile, chartFile,
                   httpCount, keyPrompts, tickerPrompts, calls>>

\* lines 107-110: tight_layout and savefig, which creates the PNG or fails
GraphSave ==
    /\ pc = "cpg_save"
    /\ \/ /\ chartFile' = TRUE
          /\ pc' = "cpg_show"
          /\ UNCHANGED <<out, raised>>
       \/ /\ GraphRaise("cpg_save", "RenderError")
          /\ chartFile' = chartFile
    /\ UNCHANGED <<mode, environ, key_answer, API_KEY, stock, days_tracked, now, end_date,
                   start_date, response, stock_data, tableFile, httpCount,
                   keyPrompts, tickerPrompts, calls>>

\* line 113: plt.show()
GraphShow ==
    /\ pc = "cpg_show"
    /\ \/ pc' = "done" /\ UNCHANGED <<out, raised>>
       \/ GraphRaise("cpg_show", "RenderError")
    /\ UNCHANGED <<mode, environ, key_answer, API_KEY, stock, days_tracked, now, end_date,
                   start_date, response, stock_data, tableFile, chartFile,
                   httpCount, keyPrompts, tickerPrompts, calls>>

-----------------------------------------------------------------------------
(* The run of __main__ *)

Next ==
    \/ GetApiKeyEnv
    \/ GetApiKeyPrompt
    \/ MainCheckKey
    \/ MainPrompts
    \/ GsdEndDate
    \/ GsdStartDate
    \/ GsdRequest
    \/ GsdHandleResponse
    \/ MainResult
    \/ SaveEntry
    \/ SaveOpen
    \/ SaveHeader
    \/ SaveRows
    \/ GraphEntry
    \/ GraphPlot
    \/ GraphAxis
    \/ GraphAnnotate
    \/ GraphSave
    \/ GraphShow

Spec == Init /\ [][Next]_vars

-----------------------------------------------------------------------------
(* The two output stages called on their own, on any argument *)

\* the df arguments: None, an empty frame, and transformed bar sequences
StageData ==
    {None, Some(<<>>)}
    \cup { Some(TransformResults(r)) : r \in ResultArrays("asc", Today - 1, Today) }

InitStages ==
    /\ mode = "direct"
    /\ pc \in {"stf_entry", "cpg_entry"}
    /\ environ = None
    /\ key_answer = None
    /\ API_KEY = None
    /\ stock \in { Upper(t) : t \in TickerInputs }
    /\ days_tracked \in DaysInputs
    /\ now = Today * TicksPerDay
    /\ end_date = 0
    /\ start_date = 0
    /\ response = None
    /\ stock_data \in StageData
    /\ tableFile = NoFile
    /\ chartFile = FALSE
    /\ out = <<>>
    /\ raised = "none"
    /\ httpCount = 0
    /\ keyPrompts = 0
    /\ tickerPrompts = 0
    /\ calls = <<>>

NextStages ==
    \/ SaveEntry
    \/ SaveOpen
    \/ SaveHeader
    \/ SaveRows
    \/ GraphEntry
    \/ GraphPlot
    \/ GraphAxis
    \/ GraphAnnotate
    \/ GraphSave
    \/ GraphShow

SpecStages == InitStages /\ [][NextStages]_vars

-----------------------------------------------------------------------------
(* Vocabulary of the properties *)

Printed(msg) == \E i \in DOMAIN out : out[i] = msg

SaveSteps == {"stf_open", "stf_header", "stf_rows"}
GraphSteps == {"cpg_plot", "cpg_axis", "cpg_annotate", "cpg_save", "cpg_show"}

\* save_to_text_file was called and has returned
SaveReturned ==
    /\ calls # <<>>
    /\ calls[1] = "save_to_text_file"
    /\ pc \in {"cpg_entry", "done"} \cup GraphSteps

\* the response was a 200 carrying a 'results' array that is not empty
FetchedData ==
    /\ response # None
    /\ response.val.status = 200
    /\ response.val.body.kind = "json"
    /\ "results" \in DOMAIN response.val.body.data
    /\ response.val.body.data.results # <<>>

\* the bars of the response
Bars == response.val.body.data.results

\* get_stock_data has handled the response and returned
FetchReturned == pc \in {"main_result", "stf_entry", "cpg_entry", "done"} \cup SaveSteps \cup GraphSteps

\* y is x (thousandths) rounded to 2 decimals: a whole number of hundredths,
\* and no other hundredth is nearer to x
RoundedTo2(y, x) ==
    /\ y % 10 = 0
    /\ 2 * (IF y >= x THEN y - x ELSE x - y) <= 10

IsBlank(s) == \A i \in DOMAIN s : s[i] \in Whitespace

-----------------------------------------------------------------------------
(* C1 *)

\* C1: an output file is written, and an output stage is called, only after
\* a 200 response with a non-empty 'results' array; after a non-200 response
\* or a 200 response with missing or empty 'results', get_stock_data has
\* printed its error message and returned None, and neither
\* save_to_text_file nor create_price_graph is called.
C1_OutputOnlyOnData ==
    /\ (tableFile.exists \/ chartFile \/ calls # <<>>) => FetchedData
    /\ (response # None /\ FetchReturned /\ response.val.status # 200)
          => /\ Printed("API Error")
             /\ stock_data = None
             /\ calls = <<>>
    /\ (response # None /\ FetchReturned /\ response.val.status = 200 /\ ~FetchedData)
          => /\ Printed("No data found in API response")
             /\ stock_data = None
             /\ calls = <<>>

\* a run that ended after a 200 response with an empty results array
C1_Witness ==
    /\ pc = "done"
    /\ response # None
    /\ response.val.status = 200
    /\ response.val.body.kind = "json"
    /\ "results" \in DOMAIN response.val.body.data
    /\ response.val.body.data.results = <<>>
    /\ Printed("No data found in API response")
    /\ ~tableFile.exists /\ ~chartFile

-----------------------------------------------------------------------------
(* C2 *)

\* C2: no exception propagates out of any stage of a run: whatever the user
\* types, whatever the HTTP request does and whatever the 200 body holds,
\* the run never ends with an uncaught exception.
C2_NoExceptionPropagates == raised = "none" /\ pc # "crashed"

-----------------------------------------------------------------------------
(* C3 *)

\* C3: once get_stock_data has computed both dates, start_date is exactly
\* int(days_tracked) calendar days before end_date.
C3_RangeSpansRequestedDays ==
    start_date # 0 => end_date - start_date = ParseInt(days_tracked).val

-----------------------------------------------------------------------------
(* C4 *)

\* row i of the table is bar i of the response: its date and its volume
RowIsBar(row, bar) == row[1] = bar.t \div TicksPerDay /\ row[6] = bar.v

\* C4 as stated: whenever save_to_text_file has been called and the run has
\* ended, the table holds exactly one row per bar of the response, row i
\* for bar i, in ascending date order.
C4_OneRowPerBar ==
    (pc = "done" /\ calls # <<>>) =>
        /\ Len(tableFile.rows) = Len(Bars)
        /\ \A i \in DOMAIN tableFile.rows : RowIsBar(tableFile.rows[i], Bars[i])
        /\ \A i \in 1 .. (Len(tableFile.rows) - 1) :
               tableFile.rows[i][1] < tableFile.rows[i + 1][1]

\* C4 amended: the rows written are always the first bars of the response,
\* row i for bar i, none duplicated or reordered, in ascending date order;
\* and when save_to_text_file has returned without reporting a failed open
\* or write, there is exactly one row per bar.
C4_RowsAreBarsInOrder ==
    tableFile.rows # <<>> \/ SaveReturned =>
        /\ FetchedData
        /\ Len(tableFile.rows) <= Len(Bars)
        /\ \A i \in DOMAIN tableFile.rows : RowIsBar(tableFile.rows[i], Bars[i])
        /\ \A i \in 1 .. (Len(tableFile.rows) - 1) :
               tableFile.rows[i][1] < tableFile.rows[i + 1][1]
        /\ (SaveReturned /\ ~Printed("Error saving file"))
              => Len(tableFile.rows) = Len(Bars)

\* a table of two rows written in full
C4_Witness ==
    /\ pc = "done"
    /\ ~Printed("Error saving file")
    /\ Len(tableFile.rows) = 2
    /\ tableFile.rows[1][1] < tableFile.rows[2][1]

-----------------------------------------------------------------------------
(* C5 *)

\* C5: every open, high, low and close of every returned bar is the API
\* value rounded to 2 decimals (a multiple of 0.01, no hundredth nearer),
\* rounding it again changes nothing, and the volume and the date are the
\* API's, not rounded.
C5_PricesRoundedTo2 ==
    (response # None /\ stock_data # None) =>
        /\ Len(stock_data.val) = Len(Bars)
        /\ \A k \in DOMAIN stock_data.val :
             LET row == stock_data.val[k]
                 bar == Bars[k]
             IN  /\ RoundedTo2(row.open, bar.o)
                 /\ RoundedTo2(row.high, bar.h)
                 /\ RoundedTo2(row.low, bar.l)
                 /\ RoundedTo2(row.close, bar.c)
                 /\ Round2(row.open) = row.open
                 /\ Round2(row.high) = row.high
                 /\ Round2(row.low) = row.low
                 /\ Round2(row.close) = row.close
                 /\ row.volume = bar.v
                 /\ row.date = bar.t

\* a returned bar whose API open price had a third decimal to round away,
\* next to a volume that is no multiple of 0.01
C5_Witness ==
    /\ response # None
    /\ stock_data # None
    /\ \E k \in DOMAIN stock_data.val :
          /\ Bars[k].o % 10 = 7
          /\ stock_data.val[k].open = Bars[k].o + 3
          /\ stock_data.val[k].volume % 10 # 0

-----------------------------------------------------------------------------
(* C6 *)

\* C6: called on any argument, save_to_text_file and create_price_graph
\* never let an exception out: a failure of open, of a write or of a
\* rendering step is reported and the function returns; on None each
\* reports that there is no data and creates no file.
C6_StagesNeverRaise ==
    /\ raised = "none"
    /\ pc # "crashed"
    /\ stock_data = None => ~tableFile.exists /\ ~chartFile
    /\ (stock_data = None /\ pc = "done")
          => Printed("No data to save") \/ Printed("No data to graph")
    /\ (pc = "done" /\ stock_data # None /\ calls = <<"save_to_text_file">>)
          => \/ Printed("Error saving file")
             \/ /\ tableFile.exists /\ tableFile.header
                /\ Len(tableFile.rows) = Len(stock_data.val)
    /\ (pc = "done" /\ stock_data # None /\ calls = <<"create_price_graph">>)
          => Printed("Error creating graph") \/ chartFile

\* save_to_text_file has returned after a failed open
C6_Witness ==
    /\ mode = "direct"
    /\ pc = "done"
    /\ calls = <<"save_to_text_file">>
    /\ Printed("Error saving file")
    /\ ~tableFile.exists

-----------------------------------------------------------------------------
(* C7 *)

\* C7 as stated: a run issues at most one GET, and a run that reached
\* get_stock_data with an integer lookback value and has ended has issued
\* exactly one.
C7_ExactlyOneRequest ==
    /\ httpCount <= 1
    /\ (pc \in {"done", "crashed"} /\ ParseInt(days_tracked).ok) => httpCount = 1

\* C7 amended: a run issues at most one GET, whatever its outcome, and never
\* a second one; it issues exactly one in every run in which get_stock_data
\* computed its date range, and none before that.
C7_AtMostOneRequest ==
    /\ httpCount <= 1
    /\ (start_date # 0 /\ pc # "gsd_request") => httpCount = 1
    /\ start_date = 0 => httpCount = 0

\* a run that ended after a non-200 response, with one request issued
C7_Witness ==
    /\ pc = "done"
    /\ response # None
    /\ response.val.status = 429
    /\ httpCount = 1

-----------------------------------------------------------------------------
(* C8 *)

\* C8: with POLYGON_API_KEY set and non-empty the key is the variable's
\* value and nothing is prompted; otherwise the key is prompted once, and a
\* blank answer gives None: the run exits with no ticker prompt, no HTTP
\* request and no output file.
C8_CredentialResolution ==
    /\ (environ # None /\ environ.val # <<>>)
          => /\ keyPrompts = 0
             /\ pc # "main" => API_KEY = environ
    /\ (environ = None \/ environ.val = <<>>)
          => /\ keyPrompts <= 1
             /\ pc \notin {"main", "gak_prompt"} => keyPrompts = 1
    /\ (key_answer # None /\ IsBlank(key_answer.val))
          => /\ API_KEY = None
             /\ Printed("API key is required to continue")
             /\ pc \in {"main_check_key", "exited"}
    /\ (key_answer # None /\ ~IsBlank(key_answer.val))
          => API_KEY # None /\ pc # "exited"
    /\ pc = "exited"
          => /\ tickerPrompts = 0
             /\ httpCount = 0
             /\ ~tableFile.exists /\ ~chartFile
             /\ calls = <<>>

\* a run that exited on an answer of one space
C8_Witness ==
    /\ pc = "exited"
    /\ key_answer = Some(<<" ">>)
    /\ keyPrompts = 1

-----------------------------------------------------------------------------
(* C9 *)

\* C9 as stated: a bar sequence returned by get_stock_data is never empty,
\* and once save_to_text_file has returned the table holds at least one
\* data row.
C9_NonEmptyAndRowWritten ==
    /\ stock_data # None => Len(stock_data.val) >= 1
    /\ SaveReturned => Len(tableFile.rows) >= 1

\* C9 amended: a bar sequence returned by get_stock_data is never empty, so
\* create_price_graph always has a last bar to annotate, and
\* save_to_text_file always has a first row to write and has written at
\* least one row whenever it returns without reporting a failed open or
\* write.
C9_ReturnedDataNonEmpty ==
    /\ stock_data # None => Len(stock_data.val) >= 1
    /\ pc \in {"cpg_annotate", "cpg_save", "cpg_show"} => Len(stock_data.val) >= 1
    /\ pc = "stf_rows" => Len(stock_data.val) >= 1
    /\ (SaveReturned /\ ~Printed("Error saving file")) => Len(tableFile.rows) >= 1

\* a sequence of one bar, written as one row and annotated as the latest
C9_Witness ==
    /\ pc = "cpg_save"
    /\ Len(stock_data.val) = 1
    /\ Len(tableFile.rows) = 1

-----------------------------------------------------------------------------
(* C10 *)

\* the stages are called in this order, each at most once
StageOrder ==
    /\ calls \in {<<>>, <<"save_to_text_file">>,
                  <<"save_to_text_file", "create_price_graph">>}
    /\ (pc \in {"done", "crashed"} /\ stock_data # None)
          => calls = <<"save_to_text_file", "create_price_graph">>
    /\ chartFile => Len(calls) = 2

\* no step of create_price_graph, failing or not, touches the text table
TableKept ==
    pc \in {"cpg_entry"} \cup GraphSteps => tableFile' = tableFile

\* C10: after a successful fetch the table write is attempted first and the
\* chart second; the chart is attempted even when the table write failed;
\* and nothing the chart stage does, a rendering failure included, changes
\* a table already written.
C10_TableThenChart == []StageOrder /\ [][TableKept]_vars

\* a run that ended with the chart alone: the table could not be opened,
\* and the chart was attempted and saved all the same
C10_Witness ==
    /\ pc = "done"
    /\ Printed("Error saving file")
    /\ ~tableFile.exists
    /\ chartFile

====
